---- MODULE Spec2Model ----
(***************************************************************************)
(* A model of sixth::LinkedList (src/src/sixth.rs): the raw-pointer doubly *)
(* linked list, its owning and borrowing iterators and its CursorMut.      *)
(*                                                                         *)
(* The heap is a function from node addresses to Node structs; `alloc` is  *)
(* the allocator's set of live boxes.  Option<T> is a sequence of length   *)
(* at most one: None is <<>> and Some(x) is <<x>>.                         *)
(***************************************************************************)
EXTENDS Integers, Sequences, FiniteSets

\* Bounds of the model: addresses the allocator can hand out, element values.
MaxNodes == 3
MaxVal == 2

Nodes == 1..MaxNodes
Values == 1..MaxVal

None == <<>>
Some(x) == <<x>>
Unwrap(o) == o[1]

VARIABLES
    heap,     \* [Nodes -> Node]: the memory behind every NonNull<Node<T>>
    alloc,    \* the addresses currently owned by a Box (allocated, not freed)
    list,     \* the LinkedList { first, last, len }
    mode,     \* who holds the list: "list" (its owner), "cursor", "iter",
              \* "iter_mut", "into_iter", or "dropped"
    cursor,   \* CursorMut { current, index }
    out,      \* Option<LinkedList>: the list split_before returned
    it,       \* Iter / IterMut { front, back, len }
    yielded,  \* the items the live iterator has returned so far, in call order
    snap,     \* the nodes of the list, front to back, when the iterator was made
    moves,    \* the move_next / move_prev calls made since the cursor was last
              \* at the ghost, oldest first; TooMany once there are over two
              \* and they are not all the same call.  Kept while the list is
              \* as cursor_mut found it: <<>> from the first split_before on
    op,       \* the last method called
    arg,      \* its argument, as an Option
    ret,      \* what it returned
    fault     \* "none", or the panic / undefined behaviour the last call hit

vars == <<heap, alloc, list, mode, cursor, out, it, yielded, snap, moves, op, arg, ret, fault>>

----------------------------------------------------------------------------
\* Node<T> and LinkedList<T>

Node(value, next, prev) == [value |-> value, next |-> next, prev |-> prev]

\* What the model keeps in a freed cell (reads of it are faults, never values).
FreeCell == Node(0, None, None)

LinkedList_new == [first |-> None, last |-> None, len |-> 0]

is_empty(l) == l.len = 0

len(l) == l.len

\* A call's outcome: the memory, the list it was called on, the value returned.
Result(mem, l, r, f) == [mem |-> mem, list |-> l, ret |-> r, fault |-> f]

\* Box::new: the allocator hands out an address that is not live.
Box_new(mem) ==
    LET free == DOMAIN mem.heap \ mem.alloc
    IN  CHOOSE n \in free : \A m \in free : n <= m

\* A link that points at freed memory.
Dangling(mem, link) == link # None /\ Unwrap(link) \notin mem.alloc

\* push_front that never sets the old head's prev.
push_front_no_backlink(mem, l, value) ==
    LET n == Box_new(mem)
        node == Some(n)
        h1 == [mem.heap EXCEPT ![n] = Node(value, l.first, None)]
        l1 == IF l.first = None THEN [l EXCEPT !.last = node] ELSE l
    IN  Result([heap |-> h1, alloc |-> mem.alloc \cup {n}],
               [l1 EXCEPT !.first = node, !.len = l.len + 1], None, "none")

push_front(mem, l, value) ==
    LET n == Box_new(mem)
        node == Some(n)
        h1 == [mem.heap EXCEPT ![n] = Node(value, l.first, None)]
        h2 == IF l.first = None THEN h1
              ELSE [h1 EXCEPT ![Unwrap(l.first)].prev = node]
        l1 == IF l.first = None THEN [l EXCEPT !.last = node] ELSE l
    IN  IF Dangling(mem, l.first)
        THEN Result(mem, l, None, "use_after_free")
        ELSE Result([heap |-> h2, alloc |-> mem.alloc \cup {n}],
                    [l1 EXCEPT !.first = node, !.len = l.len + 1], None, "none")

push_back(mem, l, value) ==
    LET n == Box_new(mem)
        node == Some(n)
        h1 == [mem.heap EXCEPT ![n] = Node(value, None, l.last)]
        h2 == IF l.last = None THEN h1
              ELSE [h1 EXCEPT ![Unwrap(l.last)].next = node]
        l1 == IF l.last = None THEN [l EXCEPT !.first = node] ELSE l
    IN  IF Dangling(mem, l.last)
        THEN Result(mem, l, None, "use_after_free")
        ELSE Result([heap |-> h2, alloc |-> mem.alloc \cup {n}],
                    [l1 EXCEPT !.last = node, !.len = l.len + 1], None, "none")

\* pop_front that leaves `last` alone when it removes the only node.
pop_front_keeps_last(mem, l) ==
    IF l.first = None THEN Result(mem, l, None, "none")
    ELSE LET n == Unwrap(l.first)
             node == mem.heap[n]
             h1 == IF node.next = None THEN mem.heap
                   ELSE [mem.heap EXCEPT ![Unwrap(node.next)].prev = None]
         IN  Result([heap |-> [h1 EXCEPT ![n] = FreeCell], alloc |-> mem.alloc \ {n}],
                    [l EXCEPT !.first = node.next, !.len = l.len - 1],
                    Some(node.value), "none")

pop_front(mem, l) ==
    IF l.first = None THEN Result(mem, l, None, "none")
    ELSE IF Dangling(mem, l.first) THEN Result(mem, l, None, "double_free")
    ELSE LET n == Unwrap(l.first)
             node == mem.heap[n]
             h1 == IF node.next = None THEN mem.heap
                   ELSE [mem.heap EXCEPT ![Unwrap(node.next)].prev = None]
             l1 == IF node.next = None THEN [l EXCEPT !.last = None] ELSE l
         IN  IF Dangling(mem, node.next)
             THEN Result(mem, l, None, "use_after_free")
             ELSE IF l.len = 0
             THEN Result(mem, l, None, "sub_overflow")
             ELSE Result([heap |-> [h1 EXCEPT ![n] = FreeCell],
                          alloc |-> mem.alloc \ {n}],
                         [l1 EXCEPT !.first = node.next, !.len = l.len - 1],
                         Some(node.value), "none")

\* pop_back written over pop_front's body: it detaches the head, not the tail.
pop_back_takes_head(mem, l) == pop_front(mem, l)

\* pop_back without its self.len -= 1.
pop_back_keeps_len(mem, l) ==
    IF l.last = None THEN Result(mem, l, None, "none")
    ELSE LET n == Unwrap(l.last)
             node == mem.heap[n]
             h1 == IF node.prev = None THEN mem.heap
                   ELSE [mem.heap EXCEPT ![Unwrap(node.prev)].next = None]
             l1 == IF node.prev = None THEN [l EXCEPT !.first = None] ELSE l
         IN  Result([heap |-> [h1 EXCEPT ![n] = FreeCell], alloc |-> mem.alloc \ {n}],
                    [l1 EXCEPT !.last = node.prev], Some(node.value), "none")

\* pop_back that leaves `first` alone when it removes the only node.
pop_back_keeps_first(mem, l) ==
    IF l.last = None THEN Result(mem, l, None, "none")
    ELSE LET n == Unwrap(l.last)
             node == mem.heap[n]
             h1 == IF node.prev = None THEN mem.heap
                   ELSE [mem.heap EXCEPT ![Unwrap(node.prev)].next = None]
         IN  Result([heap |-> [h1 EXCEPT ![n] = FreeCell], alloc |-> mem.alloc \ {n}],
                    [l EXCEPT !.last = node.prev, !.len = l.len - 1],
                    Some(node.value), "none")

pop_back(mem, l) ==
    IF l.last = None THEN Result(mem, l, None, "none")
    ELSE IF Dangling(mem, l.last) THEN Result(mem, l, None, "double_free")
    ELSE LET n == Unwrap(l.last)
             node == mem.heap[n]
             h1 == IF node.prev = None THEN mem.heap
                   ELSE [mem.heap EXCEPT ![Unwrap(node.prev)].next = None]
             l1 == IF node.prev = None THEN [l EXCEPT !.first = None] ELSE l
         IN  IF Dangling(mem, node.prev)
             THEN Result(mem, l, None, "use_after_free")
             ELSE IF l.len = 0
             THEN Result(mem, l, None, "sub_overflow")
             ELSE Result([heap |-> [h1 EXCEPT ![n] = FreeCell],
                          alloc |-> mem.alloc \ {n}],
                         [l1 EXCEPT !.last = node.prev, !.len = l.len - 1],
                         Some(node.value), "none")

front(mem, l) ==
    IF l.first = None THEN Result(mem, l, None, "none")
    ELSE IF Dangling(mem, l.first) THEN Result(mem, l, None, "use_after_free")
    ELSE Result(mem, l, Some(mem.heap[Unwrap(l.first)].value), "none")

back(mem, l) ==
    IF l.last = None THEN Result(mem, l, None, "none")
    ELSE IF Dangling(mem, l.last) THEN Result(mem, l, None, "use_after_free")
    ELSE Result(mem, l, Some(mem.heap[Unwrap(l.last)].value), "none")

\* Drop for LinkedList: while self.pop_front().is_some() {}.  Every pass that
\* returns Some frees one live box, so `fuel` (the number of live boxes) is
\* never used up by a loop that ends; a loop that does not end is a fault.
RECURSIVE drop_loop(_, _, _)
drop_loop(mem, l, fuel) ==
    LET r == pop_front(mem, l)
    IN  IF r.fault # "none" \/ r.ret = None THEN r
        ELSE IF fuel = 0 THEN [r EXCEPT !.ret = None, !.fault = "no_termination"]
        ELSE drop_loop(r.mem, r.list, fuel - 1)

\* An `if` where the `while` should be: only the head is released.
drop_pops_once(mem, l) == [pop_front(mem, l) EXCEPT !.ret = None]

drop(mem, l) == drop_loop(mem, l, Cardinality(mem.alloc))

\* Extend: push_back for every item of the input, in order.
RECURSIVE extend(_, _, _)
extend(mem, l, items) ==
    IF items = <<>> THEN Result(mem, l, None, "none")
    ELSE LET r == push_back(mem, l, Head(items))
         IN  IF r.fault # "none" THEN r ELSE extend(r.mem, r.list, Tail(items))

\* FromIterator: a new list extended with the input (collect()).
from_iter(mem, items) == extend(mem, LinkedList_new, items)

\* IntoIter(LinkedList): next and next_back drain the list itself.
IntoIter_next(mem, l) == pop_front(mem, l)

\* next_back draining the front, as next does.
IntoIter_next_back_pops_front(mem, l) == pop_front(mem, l)

IntoIter_next_back(mem, l) == pop_back(mem, l)

----------------------------------------------------------------------------
\* Iter and IterMut: { front, back, len }

\* (&list).into_iter() and (&mut list).into_iter(), behind iter() and iter_mut().
iter(l) == [front |-> l.first, back |-> l.last, len |-> l.len]

iter_mut(l) == [front |-> l.first, back |-> l.last, len |-> l.len]

\* A step's outcome: the iterator, the item (a reference to a node's value;
\* `node` says which node), and the fault if a pointer it read was dangling.
Stepped(i, r, node, f) == [it |-> i, ret |-> r, node |-> node, fault |-> f]

Iter_next(mem, i) ==
    IF i.len = 0 \/ i.front = None THEN Stepped(i, None, None, "none")
    ELSE IF Dangling(mem, i.front) THEN Stepped(i, None, None, "use_after_free")
    ELSE LET ptr == mem.heap[Unwrap(i.front)]
         IN  Stepped([i EXCEPT !.front = ptr.next, !.len = i.len - 1],
                     Some(ptr.value), i.front, "none")

\* next_back without its self.len -= 1.
Iter_next_back_no_count(mem, i) ==
    IF i.len = 0 \/ i.back = None THEN Stepped(i, None, None, "none")
    ELSE IF Dangling(mem, i.back) THEN Stepped(i, None, None, "use_after_free")
    ELSE LET ptr == mem.heap[Unwrap(i.back)]
         IN  Stepped([i EXCEPT !.back = ptr.prev], Some(ptr.value), i.back, "none")

Iter_next_back(mem, i) ==
    IF i.len = 0 \/ i.back = None THEN Stepped(i, None, None, "none")
    ELSE IF Dangling(mem, i.back) THEN Stepped(i, None, None, "use_after_free")
    ELSE LET ptr == mem.heap[Unwrap(i.back)]
         IN  Stepped([i EXCEPT !.back = ptr.prev, !.len = i.len - 1],
                     Some(ptr.value), i.back, "none")

Iter_size_hint(i) == <<i.len, Some(i.len)>>

IterMut_next(mem, i) ==
    IF i.len = 0 \/ i.front = None THEN Stepped(i, None, None, "none")
    ELSE IF Dangling(mem, i.front) THEN Stepped(i, None, None, "use_after_free")
    ELSE LET ptr == mem.heap[Unwrap(i.front)]
         IN  Stepped([i EXCEPT !.front = ptr.next, !.len = i.len - 1],
                     Some(ptr.value), i.front, "none")

IterMut_next_back(mem, i) ==
    IF i.len = 0 \/ i.back = None THEN Stepped(i, None, None, "none")
    ELSE IF Dangling(mem, i.back) THEN Stepped(i, None, None, "use_after_free")
    ELSE LET ptr == mem.heap[Unwrap(i.back)]
         IN  Stepped([i EXCEPT !.back = ptr.prev, !.len = i.len - 1],
                     Some(ptr.value), i.back, "none")

\* impl Iterator for IterMut defines next alone, so size_hint is the trait's
\* provided method, which returns (0, None) whatever the iterator holds.
IterMut_size_hint(i) == <<0, None>>

----------------------------------------------------------------------------
\* CursorMut: { list, current, index }

cursor_mut(l) == [current |-> None, index |-> None]

\* A cursor call's outcome: the borrowed list, the cursor, the list returned.
Moved(l, c, o, f) == [list |-> l, cursor |-> c, out |-> o, fault |-> f]

\* move_next that wraps from the last element straight to the first.
move_next_skips_ghost(mem, l, c) ==
    IF c.current # None
    THEN LET nxt == mem.heap[Unwrap(c.current)].next
         IN  IF nxt = None THEN Moved(l, [current |-> l.first, index |-> Some(0)], None, "none")
             ELSE Moved(l, [current |-> nxt, index |-> Some(Unwrap(c.index) + 1)],
                        None, "none")
    ELSE IF ~is_empty(l)
    THEN Moved(l, [current |-> l.first, index |-> Some(0)], None, "none")
    ELSE Moved(l, c, None, "none")

\* move_next that also moves the list's head along, as a pop would.
move_next_shifts_first(mem, l, c) ==
    IF c.current # None
    THEN LET nxt == mem.heap[Unwrap(c.current)].next
         IN  IF nxt = None
             THEN Moved([l EXCEPT !.first = nxt], [current |-> None, index |-> None],
                        None, "none")
             ELSE Moved([l EXCEPT !.first = nxt],
                        [current |-> nxt, index |-> Some(Unwrap(c.index) + 1)],
                        None, "none")
    ELSE IF ~is_empty(l)
    THEN Moved(l, [current |-> l.first, index |-> Some(0)], None, "none")
    ELSE Moved(l, c, None, "none")

\* move_next that stays on the last element instead of leaving to the ghost.
move_next_stops_at_last(mem, l, c) ==
    IF c.current # None
    THEN LET nxt == mem.heap[Unwrap(c.current)].next
         IN  IF nxt = None THEN Moved(l, c, None, "none")
             ELSE Moved(l, [current |-> nxt, index |-> Some(Unwrap(c.index) + 1)],
                        None, "none")
    ELSE IF ~is_empty(l)
    THEN Moved(l, [current |-> l.first, index |-> Some(0)], None, "none")
    ELSE Moved(l, c, None, "none")

move_next(mem, l, c) ==
    IF c.current # None
    THEN IF Dangling(mem, c.current) THEN Moved(l, c, None, "use_after_free")
         ELSE LET nxt == mem.heap[Unwrap(c.current)].next
              IN  IF nxt = None THEN Moved(l, [current |-> None, index |-> None], None, "none")
                  ELSE IF c.index = None THEN Moved(l, c, None, "unwrap_none")
                  ELSE Moved(l, [current |-> nxt, index |-> Some(Unwrap(c.index) + 1)],
                             None, "none")
    ELSE IF ~is_empty(l)
    THEN Moved(l, [current |-> l.first, index |-> Some(0)], None, "none")
    ELSE Moved(l, c, None, "none")

\* move_prev that enters from the ghost with index len instead of len - 1.
move_prev_ghost_index_len(mem, l, c) ==
    IF c.current # None
    THEN LET prv == mem.heap[Unwrap(c.current)].prev
         IN  IF prv = None THEN Moved(l, [current |-> None, index |-> None], None, "none")
             ELSE Moved(l, [current |-> prv, index |-> Some(Unwrap(c.index) - 1)],
                        None, "none")
    ELSE IF ~is_empty(l)
    THEN Moved(l, [current |-> l.last, index |-> Some(l.len)], None, "none")
    ELSE Moved(l, c, None, "none")

\* move_prev that stays on the first element instead of leaving to the ghost.
move_prev_stays_at_first(mem, l, c) ==
    IF c.current # None
    THEN LET prv == mem.heap[Unwrap(c.current)].prev
         IN  IF prv = None THEN Moved(l, c, None, "none")
             ELSE Moved(l, [current |-> prv, index |-> Some(Unwrap(c.index) - 1)],
                        None, "none")
    ELSE IF ~is_empty(l)
    THEN Moved(l, [current |-> l.last, index |-> Some(l.len - 1)], None, "none")
    ELSE Moved(l, c, None, "none")

move_prev(mem, l, c) ==
    IF c.current # None
    THEN IF Dangling(mem, c.current) THEN Moved(l, c, None, "use_after_free")
         ELSE LET prv == mem.heap[Unwrap(c.current)].prev
              IN  IF prv = None THEN Moved(l, [current |-> None, index |-> None], None, "none")
                  ELSE IF c.index = None THEN Moved(l, c, None, "unwrap_none")
                  ELSE IF Unwrap(c.index) = 0 THEN Moved(l, c, None, "sub_overflow")
                  ELSE Moved(l, [current |-> prv, index |-> Some(Unwrap(c.index) - 1)],
                             None, "none")
    ELSE IF ~is_empty(l)
    THEN Moved(l, [current |-> l.last, index |-> Some(l.len - 1)], None, "none")
    ELSE Moved(l, c, None, "none")

\* A peek's outcome: the Option<&mut T> returned.
Peeked(r, f) == [ret |-> r, fault |-> f]

index(c) == Peeked(c.index, "none")

current(mem, c) ==
    IF c.current = None THEN Peeked(None, "none")
    ELSE IF Dangling(mem, c.current) THEN Peeked(None, "use_after_free")
    ELSE Peeked(Some(mem.heap[Unwrap(c.current)].value), "none")

\* peek_next follows the current node's `prev`; at the ghost it is None.
peek_next(mem, c) ==
    IF c.current = None THEN Peeked(None, "none")
    ELSE IF Dangling(mem, c.current) THEN Peeked(None, "use_after_free")
    ELSE LET node == mem.heap[Unwrap(c.current)].prev
         IN  IF node = None THEN Peeked(None, "none")
             ELSE IF Dangling(mem, node) THEN Peeked(None, "use_after_free")
             ELSE Peeked(Some(mem.heap[Unwrap(node)].value), "none")

\* peek_prev follows the current node's `next`; at the ghost it is None.
peek_prev(mem, c) ==
    IF c.current = None THEN Peeked(None, "none")
    ELSE IF Dangling(mem, c.current) THEN Peeked(None, "use_after_free")
    ELSE LET node == mem.heap[Unwrap(c.current)].next
         IN  IF node = None THEN Peeked(None, "none")
             ELSE IF Dangling(mem, node) THEN Peeked(None, "use_after_free")
             ELSE Peeked(Some(mem.heap[Unwrap(node)].value), "none")

\* split_before that, at the ghost, hands out the list's ends and keeps them.
split_before_ghost_keeps_list(mem, l, c) ==
    IF c.current # None
    THEN Moved([first |-> c.current, last |-> l.last, len |-> l.len - Unwrap(c.index)],
               [c EXCEPT !.index = Some(0)],
               Some([first |-> l.first,
                     last |-> mem.heap[Unwrap(c.current)].prev,
                     len |-> Unwrap(c.index)]),
               "none")
    ELSE Moved(l, c, Some(l), "none")

\* split_before that leaves the cursor's index as it was.
split_before_keeps_index(mem, l, c) ==
    IF c.current # None
    THEN IF Dangling(mem, c.current) THEN Moved(l, c, None, "use_after_free")
         ELSE IF c.index = None THEN Moved(l, c, None, "unwrap_none")
         ELSE IF Unwrap(c.index) > l.len THEN Moved(l, c, None, "sub_overflow")
         ELSE Moved([first |-> c.current, last |-> l.last, len |-> l.len - Unwrap(c.index)],
                    c,
                    Some([first |-> l.first,
                          last |-> mem.heap[Unwrap(c.current)].prev,
                          len |-> Unwrap(c.index)]),
                    "none")
    ELSE Moved(LinkedList_new, c, Some(l), "none")

split_before(mem, l, c) ==
    IF c.current # None
    THEN IF Dangling(mem, c.current) THEN Moved(l, c, None, "use_after_free")
         ELSE IF c.index = None THEN Moved(l, c, None, "unwrap_none")
         ELSE LET old_len == l.len
                  old_index == Unwrap(c.index)
                  prev == mem.heap[Unwrap(c.current)].prev
              IN  IF old_index > old_len THEN Moved(l, c, None, "sub_overflow")
                  ELSE Moved([first |-> c.current, last |-> l.last,
                              len |-> old_len - old_index],
                             [c EXCEPT !.index = Some(0)],
                             Some([first |-> l.first, last |-> prev, len |-> old_index]),
                             "none")
    ELSE Moved(LinkedList_new, c, Some(l), "none")

\* split_after is unimplemented!(): the call panics and changes nothing.
split_after(mem, l, c) == Moved(l, c, None, "unimplemented")

\* A splice's outcome: the memory, the borrowed list, the cursor.
Spliced(mem, l, c, f) == [mem |-> mem, list |-> l, cursor |-> c, fault |-> f]

\* splice_before and splice_after are unimplemented!(): the call panics, and
\* the unwinding drops the list it was given.
splice_before(mem, l, c, input) == Spliced(drop(mem, input).mem, l, c, "unimplemented")

splice_after(mem, l, c, input) == Spliced(drop(mem, input).mem, l, c, "unimplemented")

----------------------------------------------------------------------------
\* The state machine

Mem == [heap |-> heap, alloc |-> alloc]

NoCursor == [current |-> None, index |-> None]
NoIter == [front |-> None, back |-> None, len |-> 0]

Init ==
    /\ heap = [n \in Nodes |-> FreeCell]
    /\ alloc = {}
    /\ list = LinkedList_new
    /\ mode = "list"
    /\ cursor = NoCursor
    /\ out = None
    /\ it = NoIter
    /\ yielded = <<>>
    /\ snap = <<>>
    /\ moves = <<>>
    /\ op = "new"
    /\ arg = None
    /\ ret = None
    /\ fault = "none"

\* A call on the list itself: r is its Result.
ListCall(name, a, r) ==
    /\ heap' = r.mem.heap
    /\ alloc' = r.mem.alloc
    /\ list' = r.list
    /\ op' = name
    /\ arg' = a
    /\ ret' = r.ret
    /\ fault' = r.fault
    /\ UNCHANGED moves

Owned == fault = "none" /\ mode = "list"

PushFront ==
    /\ Owned
    /\ alloc # Nodes
    /\ \E v \in Values : ListCall("push_front", Some(v), push_front(Mem, list, v))
    /\ UNCHANGED <<mode, cursor, out, it, yielded, snap>>

PushBack ==
    /\ Owned
    /\ alloc # Nodes
    /\ \E v \in Values : ListCall("push_back", Some(v), push_back(Mem, list, v))
    /\ UNCHANGED <<mode, cursor, out, it, yielded, snap>>

PopFront ==
    /\ Owned
    /\ ListCall("pop_front", None, pop_front(Mem, list))
    /\ UNCHANGED <<mode, cursor, out, it, yielded, snap>>

PopBack ==
    /\ Owned
    /\ ListCall("pop_back", None, pop_back(Mem, list))
    /\ UNCHANGED <<mode, cursor, out, it, yielded, snap>>

Front ==
    /\ Owned
    /\ ListCall("front", None, front(Mem, list))
    /\ UNCHANGED <<mode, cursor, out, it, yielded, snap>>

Back ==
    /\ Owned
    /\ ListCall("back", None, back(Mem, list))
    /\ UNCHANGED <<mode, cursor, out, it, yielded, snap>>

\* The nodes of l with their values, front to back, as an iterator made now
\* would meet them.
RECURSIVE Snapshot(_, _, _)
Snapshot(h, link, fuel) ==
    IF link = None \/ fuel = 0 THEN <<>>
    ELSE <<[node |-> Unwrap(link), value |-> h[Unwrap(link)].value]>>
         \o Snapshot(h, h[Unwrap(link)].next, fuel - 1)

\* One returned item: which end gave it, the node it lives in, its value.
Item(end, link, r) == [end |-> end, node |-> Unwrap(link), value |-> Unwrap(r)]

\* list.into_iter(): the list moves into the IntoIter.
IntoIter ==
    /\ Owned
    /\ mode' = "into_iter"
    /\ snap' = Snapshot(heap, list.first, list.len)
    /\ yielded' = <<>>
    /\ op' = "into_iter"
    /\ arg' = None
    /\ ret' = None
    /\ UNCHANGED <<heap, alloc, list, cursor, out, it, moves, fault>>

IntoIterNext ==
    /\ fault = "none" /\ mode = "into_iter"
    /\ LET r == IntoIter_next(Mem, list)
       IN  /\ ListCall("IntoIter::next", None, r)
           /\ yielded' = IF r.ret = None THEN yielded
                         ELSE Append(yielded, Item("front", list.first, r.ret))
    /\ UNCHANGED <<mode, cursor, out, it, snap>>

IntoIterNextBack ==
    /\ fault = "none" /\ mode = "into_iter"
    /\ LET r == IntoIter_next_back(Mem, list)
       IN  /\ ListCall("IntoIter::next_back", None, r)
           /\ yielded' = IF r.ret = None THEN yielded
                         ELSE Append(yielded, Item("back", list.last, r.ret))
    /\ UNCHANGED <<mode, cursor, out, it, snap>>

\* The list, or the IntoIter that holds it, goes out of scope.
Drop ==
    /\ fault = "none" /\ mode \in {"list", "into_iter"}
    /\ ListCall("drop", None, drop(Mem, list))
    /\ mode' = "dropped"
    /\ UNCHANGED <<cursor, out, it, yielded, snap>>

\* list.iter(): a shared borrow for the iterator's life.
Iter ==
    /\ Owned
    /\ mode' = "iter"
    /\ it' = iter(list)
    /\ snap' = Snapshot(heap, list.first, list.len)
    /\ yielded' = <<>>
    /\ op' = "iter"
    /\ arg' = None
    /\ ret' = None
    /\ UNCHANGED <<heap, alloc, list, cursor, out, moves, fault>>

\* list.iter_mut(): an exclusive borrow for the iterator's life.
IterMut ==
    /\ Owned
    /\ mode' = "iter_mut"
    /\ it' = iter_mut(list)
    /\ snap' = Snapshot(heap, list.first, list.len)
    /\ yielded' = <<>>
    /\ op' = "iter_mut"
    /\ arg' = None
    /\ ret' = None
    /\ UNCHANGED <<heap, alloc, list, cursor, out, moves, fault>>

\* A step of the borrowing iterator: r is its outcome.
IterCall(name, end, r) ==
    /\ it' = r.it
    /\ op' = name
    /\ arg' = None
    /\ ret' = r.ret
    /\ fault' = r.fault
    /\ yielded' = IF r.ret = None THEN yielded
                  ELSE Append(yielded, Item(end, r.node, r.ret))
    /\ UNCHANGED <<heap, alloc, list, mode, cursor, out, snap, moves>>

IterNext ==
    /\ fault = "none" /\ mode = "iter"
    /\ IterCall("next", "front", Iter_next(Mem, it))

IterNextBack ==
    /\ fault = "none" /\ mode = "iter"
    /\ IterCall("next_back", "back", Iter_next_back(Mem, it))

IterSizeHint ==
    /\ fault = "none" /\ mode = "iter"
    /\ op' = "size_hint"
    /\ arg' = None
    /\ ret' = Iter_size_hint(it)
    /\ UNCHANGED <<heap, alloc, list, mode, cursor, out, it, yielded, snap, moves, fault>>

IterMutNext ==
    /\ fault = "none" /\ mode = "iter_mut"
    /\ IterCall("next", "front", IterMut_next(Mem, it))

IterMutNextBack ==
    /\ fault = "none" /\ mode = "iter_mut"
    /\ IterCall("next_back", "back", IterMut_next_back(Mem, it))

IterMutSizeHint ==
    /\ fault = "none" /\ mode = "iter_mut"
    /\ op' = "size_hint"
    /\ arg' = None
    /\ ret' = IterMut_size_hint(it)
    /\ UNCHANGED <<heap, alloc, list, mode, cursor, out, it, yielded, snap, moves, fault>>

\* list.cursor_mut(): the cursor borrows the list exclusively, at the ghost.
CursorMut ==
    /\ Owned
    /\ mode' = "cursor"
    /\ cursor' = cursor_mut(list)
    /\ moves' = <<>>
    /\ op' = "cursor_mut"
    /\ arg' = None
    /\ ret' = None
    /\ UNCHANGED <<heap, alloc, list, out, it, yielded, snap, fault>>

\* What l.iter() yields, collected front to back with Iter's own next.
RECURSIVE Collect(_, _)
Collect(mem, i) ==
    LET r == Iter_next(mem, i)
    IN  IF r.ret = None THEN <<>> ELSE <<Unwrap(r.ret)>> \o Collect(mem, r.it)

IterElems(h, a, l) == Collect([heap |-> h, alloc |-> a], iter(l))

\* More than two moves since the ghost, in both directions.
TooMany == <<"move", "move", "move">>

\* The moves since the ghost, once the move `name` is made from here.
MovesThen(name) ==
    IF out # None THEN <<>>
    ELSE IF cursor.current = None THEN <<name>>
    ELSE IF Len(moves) < 2 THEN Append(moves, name)
    ELSE IF \A i \in 1..Len(moves) : moves[i] = name THEN Append(moves, name)
    ELSE TooMany

\* A cursor call: r is its outcome.
CursorCall(name, r) ==
    /\ list' = r.list
    /\ cursor' = r.cursor
    /\ op' = name
    /\ arg' = None
    /\ ret' = None
    /\ fault' = r.fault
    /\ UNCHANGED <<heap, alloc, mode, it, yielded, snap>>

MoveNext ==
    /\ fault = "none" /\ mode = "cursor"
    /\ CursorCall("move_next", move_next(Mem, list, cursor))
    /\ moves' = MovesThen("move_next")
    /\ UNCHANGED out

MovePrev ==
    /\ fault = "none" /\ mode = "cursor"
    /\ CursorCall("move_prev", move_prev(Mem, list, cursor))
    /\ moves' = MovesThen("move_prev")
    /\ UNCHANGED out

\* A peek, or a read of the cursor: r is its outcome.  Nothing but the
\* returned value is new.
PeekCall(name, r) ==
    /\ op' = name
    /\ arg' = None
    /\ ret' = r.ret
    /\ fault' = r.fault
    /\ UNCHANGED <<heap, alloc, list, mode, cursor, out, it, yielded, snap, moves>>

PeekNext ==
    /\ fault = "none" /\ mode = "cursor"
    /\ PeekCall("peek_next", peek_next(Mem, cursor))

PeekPrev ==
    /\ fault = "none" /\ mode = "cursor"
    /\ PeekCall("peek_prev", peek_prev(Mem, cursor))

Index ==
    /\ fault = "none" /\ mode = "cursor"
    /\ PeekCall("index", index(cursor))

Current ==
    /\ fault = "none" /\ mode = "cursor"
    /\ PeekCall("current", current(Mem, cursor))

\* The caller keeps the list split_before returns; a run splits once.
SplitBefore ==
    /\ fault = "none" /\ mode = "cursor" /\ out = None
    /\ LET r == split_before(Mem, list, cursor)
       IN  CursorCall("split_before", r) /\ out' = r.out
    /\ moves' = <<>>

SplitAfter ==
    /\ fault = "none" /\ mode = "cursor"
    /\ CursorCall("split_after", split_after(Mem, list, cursor))
    /\ UNCHANGED <<out, moves>>

\* The sequences a caller collects into the list it splices in: no element,
\* or one as in Some(7).into_iter().collect(), where an address is free.
Others == {<<>>, <<1>>}

Room == Cardinality(Nodes \ alloc)

\* A splice: r is its outcome, the argument was built from `items` ("new")
\* or is the list split_before returned ("out").
SpliceCall(name, src, items, r) ==
    /\ heap' = r.mem.heap
    /\ alloc' = r.mem.alloc
    /\ list' = r.list
    /\ cursor' = r.cursor
    /\ op' = name
    /\ arg' = Some([src |-> src, elems |-> items])
    /\ ret' = None
    /\ fault' = r.fault
    /\ out' = IF src = "out" THEN None ELSE out
    /\ UNCHANGED <<mode, it, yielded, snap, moves>>

SpliceBefore ==
    /\ fault = "none" /\ mode = "cursor"
    /\ \/ \E items \in Others :
             /\ Len(items) <= Room
             /\ LET other == from_iter(Mem, items)
                IN  SpliceCall("splice_before", "new", items,
                               splice_before(other.mem, list, cursor, other.list))
       \/ /\ out # None
          /\ SpliceCall("splice_before", "out", IterElems(heap, alloc, Unwrap(out)),
                        splice_before(Mem, list, cursor, Unwrap(out)))

SpliceAfter ==
    /\ fault = "none" /\ mode = "cursor"
    /\ \/ \E items \in Others :
             /\ Len(items) <= Room
             /\ LET other == from_iter(Mem, items)
                IN  SpliceCall("splice_after", "new", items,
                               splice_after(other.mem, list, cursor, other.list))
       \/ /\ out # None
          /\ SpliceCall("splice_after", "out", IterElems(heap, alloc, Unwrap(out)),
                        splice_after(Mem, list, cursor, Unwrap(out)))

\* The caller drops the list split_before returned; `out` keeps what the
\* drop's pops left in it (an empty list, unless a pop failed).  Dropping a
\* list with no ends pops nothing, and is not a step.
DropOut ==
    /\ fault = "none" /\ out # None /\ mode \in {"cursor", "dropped"}
    /\ Unwrap(out) # LinkedList_new
    /\ LET r == drop(Mem, Unwrap(out))
       IN  /\ heap' = r.mem.heap
           /\ alloc' = r.mem.alloc
           /\ out' = Some(r.list)
           /\ fault' = r.fault
    /\ op' = "drop_out"
    /\ arg' = None
    /\ ret' = None
    /\ UNCHANGED <<list, mode, cursor, it, yielded, snap, moves>>

\* The cursor goes out of scope (it has no Drop), then the list it borrowed.
DropBorrowed ==
    /\ fault = "none" /\ mode = "cursor"
    /\ LET r == drop(Mem, list)
       IN  /\ heap' = r.mem.heap
           /\ alloc' = r.mem.alloc
           /\ list' = r.list
           /\ fault' = r.fault
    /\ mode' = "dropped"
    /\ cursor' = NoCursor
    /\ moves' = <<>>
    /\ op' = "drop"
    /\ arg' = None
    /\ ret' = None
    /\ UNCHANGED <<out, it, yielded, snap>>

\* The caller takes the next item of the returned list's into_iter(), once
\* the cursor and its list are gone.
OutNext ==
    /\ fault = "none" /\ out # None /\ mode = "dropped"
    /\ LET r == IntoIter_next(Mem, Unwrap(out))
       IN  /\ heap' = r.mem.heap
           /\ alloc' = r.mem.alloc
           /\ out' = Some(r.list)
           /\ ret' = r.ret
           /\ fault' = r.fault
    /\ op' = "out_next"
    /\ arg' = None
    /\ UNCHANGED <<list, mode, cursor, it, yielded, snap, moves>>

Next ==
    \/ PushFront
    \/ PushBack
    \/ PopFront
    \/ PopBack
    \/ Front
    \/ Back
    \/ IntoIter
    \/ IntoIterNext
    \/ IntoIterNextBack
    \/ Drop
    \/ Iter
    \/ IterNext
    \/ IterNextBack
    \/ IterSizeHint
    \/ IterMut
    \/ IterMutNext
    \/ IterMutNextBack
    \/ IterMutSizeHint
    \/ CursorMut
    \/ MoveNext
    \/ MovePrev
    \/ SplitBefore
    \/ PeekNext
    \/ PeekPrev
    \/ SplitAfter
    \/ SpliceBefore
    \/ SpliceAfter
    \/ DropOut
    \/ DropBorrowed
    \/ OutNext
    \/ Index
    \/ Current

Spec == Init /\ [][Next]_vars

----------------------------------------------------------------------------
\* PartialEq, PartialOrd, Hash and Debug for LinkedList

\* f64::NAN, the element that is unordered with every element and equal to none.
NaN == 0 - 1

\* The elements' own == and partial_cmp (i32 and f64; NaN as for f64).
f64_eq(a, b) == a # NaN /\ b # NaN /\ a = b

f64_partial_cmp(a, b) ==
    IF a = NaN \/ b = NaN THEN None
    ELSE IF a < b THEN Some("Less")
    ELSE IF a = b THEN Some("Equal")
    ELSE Some("Greater")

\* Iterator::eq, which self.iter().eq(other) runs over the two Iters: the
\* first pair that differs, or the first side to run out alone, says false.
RECURSIVE Iterator_eq(_, _, _)
Iterator_eq(mem, a, b) ==
    LET x == Iter_next(mem, a)
        y == Iter_next(mem, b)
    IN  IF x.ret = None THEN y.ret = None
        ELSE IF y.ret = None THEN FALSE
        ELSE IF ~f64_eq(Unwrap(x.ret), Unwrap(y.ret)) THEN FALSE
        ELSE Iterator_eq(mem, x.it, y.it)

\* An eq that stops, satisfied, when self runs out (all() over a zip).
eq_zip_all(mem, l, other) ==
    LET s == Collect(mem, iter(l))
        o == Collect(mem, iter(other))
    IN  \A i \in 1..Len(s) : i <= Len(o) /\ f64_eq(s[i], o[i])

eq(mem, l, other) == Iterator_eq(mem, iter(l), iter(other))

\* Iterator::partial_cmp: lexicographic; the first pair that is not Equal
\* decides (None if it is unordered), a side that runs out first is Less.
RECURSIVE Iterator_partial_cmp(_, _, _)
Iterator_partial_cmp(mem, a, b) ==
    LET x == Iter_next(mem, a)
        y == Iter_next(mem, b)
    IN  IF x.ret = None
        THEN IF y.ret = None THEN Some("Equal") ELSE Some("Less")
        ELSE IF y.ret = None THEN Some("Greater")
        ELSE LET c == f64_partial_cmp(Unwrap(x.ret), Unwrap(y.ret))
             IN  IF c = Some("Equal") THEN Iterator_partial_cmp(mem, x.it, y.it)
                 ELSE c

partial_cmp(mem, l, other) == Iterator_partial_cmp(mem, iter(l), iter(other))

\* PartialOrd's provided lt, le, gt, ge, each a match on partial_cmp.
lt(mem, l, other) == partial_cmp(mem, l, other) = Some("Less")

gt(mem, l, other) == partial_cmp(mem, l, other) = Some("Greater")

\* <= taken for "not >", which is right only where the order is total.
le_not_gt(mem, l, other) == ~gt(mem, l, other)

le(mem, l, other) == partial_cmp(mem, l, other) \in {Some("Less"), Some("Equal")}

ge(mem, l, other) == partial_cmp(mem, l, other) \in {Some("Greater"), Some("Equal")}

\* A call that panics before it returns anything.
Panicked(f) == [ret |-> None, fault |-> f]

\* Hash::hash and Debug::fmt are unimplemented!().
hash(mem, l) == Panicked("unimplemented")

fmt(mem, l) == Panicked("unimplemented")

\* Two lists side by side, for ==, the comparisons, hash and {:?}: `list` is
\* built by pushes at either end, `out` holds the other list, collected from
\* a sequence.  The elements are the values and NaN.
CmpNodes == 4

CmpAddrs == 1..CmpNodes

Floats == Values \cup {NaN}

InitCmp ==
    /\ heap = [n \in CmpAddrs |-> FreeCell]
    /\ alloc = {}
    /\ list = LinkedList_new
    /\ mode = "list"
    /\ cursor = NoCursor
    /\ out = None
    /\ it = NoIter
    /\ yielded = <<>>
    /\ snap = <<>>
    /\ moves = <<>>
    /\ op = "new"
    /\ arg = None
    /\ ret = None
    /\ fault = "none"

CmpPushFront ==
    /\ Owned /\ out = None
    /\ alloc # CmpAddrs
    /\ \E v \in Floats : ListCall("push_front", Some(v), push_front(Mem, list, v))
    /\ UNCHANGED <<mode, cursor, out, it, yielded, snap>>

CmpPushBack ==
    /\ Owned /\ out = None
    /\ alloc # CmpAddrs
    /\ \E v \in Floats : ListCall("push_back", Some(v), push_back(Mem, list, v))
    /\ UNCHANGED <<mode, cursor, out, it, yielded, snap>>

\* The sequences the other list is collected from: as long as memory allows.
FloatSeqs(room) == UNION {[1..k -> Floats] : k \in 0..room}

\* let other: LinkedList<_> = items.collect()
FromIter ==
    /\ Owned /\ out = None
    /\ \E items \in FloatSeqs(Cardinality(CmpAddrs \ alloc)) :
          LET r == from_iter(Mem, items)
          IN  /\ heap' = r.mem.heap
              /\ alloc' = r.mem.alloc
              /\ out' = Some(r.list)
              /\ op' = "from_iter"
              /\ arg' = Some(items)
              /\ ret' = None
              /\ fault' = r.fault
    /\ UNCHANGED <<list, mode, cursor, it, yielded, snap, moves>>

\* A call that reads the two lists: `name` returned r, `swapped` says the
\* call was other.name(&list) rather than list.name(&other).
Compared(name, swapped, r) ==
    /\ op' = name
    /\ arg' = Some(swapped)
    /\ ret' = r
    /\ UNCHANGED <<heap, alloc, list, mode, cursor, out, it, yielded, snap, moves, fault>>

\* The receiver and the argument of a call on the two lists.
Lhs(swapped) == IF swapped THEN Unwrap(out) ELSE list
Rhs(swapped) == IF swapped THEN list ELSE Unwrap(out)

Eq ==
    /\ Owned /\ out # None
    /\ \E w \in BOOLEAN : Compared("eq", w, eq(Mem, Lhs(w), Rhs(w)))

PartialCmp ==
    /\ Owned /\ out # None
    /\ \E w \in BOOLEAN : Compared("partial_cmp", w, partial_cmp(Mem, Lhs(w), Rhs(w)))

Lt ==
    /\ Owned /\ out # None
    /\ \E w \in BOOLEAN : Compared("lt", w, lt(Mem, Lhs(w), Rhs(w)))

Le ==
    /\ Owned /\ out # None
    /\ \E w \in BOOLEAN : Compared("le", w, le(Mem, Lhs(w), Rhs(w)))

Gt ==
    /\ Owned /\ out # None
    /\ \E w \in BOOLEAN : Compared("gt", w, gt(Mem, Lhs(w), Rhs(w)))

Ge ==
    /\ Owned /\ out # None
    /\ \E w \in BOOLEAN : Compared("ge", w, ge(Mem, Lhs(w), Rhs(w)))

\* A call on `list` alone that panics.
PanicCall(name, r) ==
    /\ op' = name
    /\ arg' = None
    /\ ret' = r.ret
    /\ fault' = r.fault
    /\ UNCHANGED <<heap, alloc, list, mode, cursor, out, it, yielded, snap, moves>>

\* list.hash(&mut hasher), as HashMap::insert, get and remove call it on a key.
Hash ==
    /\ Owned
    /\ PanicCall("hash", hash(Mem, list))

\* format!("{:?}", list)
Fmt ==
    /\ Owned
    /\ PanicCall("fmt", fmt(Mem, list))

NextCmp ==
    \/ CmpPushFront
    \/ CmpPushBack
    \/ FromIter
    \/ Eq
    \/ PartialCmp
    \/ Lt
    \/ Le
    \/ Gt
    \/ Ge
    \/ Hash
    \/ Fmt

SpecCmp == InitCmp /\ [][NextCmp]_vars

----------------------------------------------------------------------------
\* fourth::List (src/src/fourth.rs): the deque of Rc<RefCell<Node>>.  A heap
\* cell holds the Node and the Rc's strong count; the cell is freed, and the
\* Node's own links dropped, when the last Rc to it is dropped.

RcNode(value) == [value |-> value, next |-> None, prev |-> None, strong |-> 1]

FreeRc == [value |-> 0, next |-> None, prev |-> None, strong |-> 0]

fourth_List_new == [first |-> None, last |-> None]

Rc_strong_count(mem, link) == mem.heap[Unwrap(link)].strong

Rc_clone(mem, link) == [mem EXCEPT !.heap[Unwrap(link)].strong = @ + 1]

\* Dropping an Option<Rc<..>>: the count goes down, and at zero the Node goes
\* with its next and prev.
RECURSIVE Rc_drop(_, _)
Rc_drop(mem, link) ==
    IF link = None THEN mem
    ELSE LET n == Unwrap(link)
             node == mem.heap[n]
         IN  IF node.strong > 1 THEN [mem EXCEPT !.heap[n].strong = @ - 1]
             ELSE Rc_drop(Rc_drop([heap |-> [mem.heap EXCEPT ![n] = FreeRc],
                                   alloc |-> mem.alloc \ {n}],
                                  node.next),
                          node.prev)

\* A push's outcome once its closing assert_eq!(strong_count(first), 2) ran.
Asserted(r) ==
    IF Rc_strong_count(r.mem, r.list.first) # 2
    THEN Result(r.mem, r.list, None, "assert_failed")
    ELSE Result(r.mem, r.list, None, "none")

fourth_push_front(mem, l, value) ==
    LET n == Box_new(mem)
        new_node == Some(n)
        m0 == [heap |-> [mem.heap EXCEPT ![n] = RcNode(value)], alloc |-> mem.alloc \cup {n}]
        m1 == Rc_clone(m0, new_node)
    IN  IF l.first = None
        THEN Asserted([mem |-> Rc_drop(m1, l.last),
                       list |-> [first |-> new_node, last |-> new_node]])
        ELSE LET next == Unwrap(l.first)
                 old == m1.heap[next].prev
                 m2 == Rc_drop([m1 EXCEPT !.heap[next].prev = new_node], old)
                 m3 == [m2 EXCEPT !.heap[n].next = l.first]
             IN  Asserted([mem |-> m3, list |-> [first |-> new_node, last |-> l.last]])

fourth_push_back(mem, l, value) ==
    LET n == Box_new(mem)
        new_node == Some(n)
        m0 == [heap |-> [mem.heap EXCEPT ![n] = RcNode(value)], alloc |-> mem.alloc \cup {n}]
        m1 == Rc_clone(m0, new_node)
    IN  IF l.last = None
        THEN Asserted([mem |-> Rc_drop(m1, l.first),
                       list |-> [first |-> new_node, last |-> new_node]])
        ELSE LET prev == Unwrap(l.last)
                 old == m1.heap[prev].next
                 m2 == Rc_drop([m1 EXCEPT !.heap[prev].next = new_node], old)
                 m3 == [m2 EXCEPT !.heap[n].prev = l.last]
             IN  Asserted([mem |-> m3, list |-> [first |-> l.first, last |-> new_node]])

\* Rc::try_unwrap(node).ok().unwrap().into_inner().value: the caller's Rc must
\* be the only one left.
Unwrapped(r, node, value) ==
    IF Rc_strong_count(r.mem, node) # 1
    THEN Result(r.mem, r.list, None, "unwrap_none")
    ELSE Result(Rc_drop(r.mem, node), r.list, Some(value), "none")

\* pop_front without next.borrow_mut().prev = None.
fourth_pop_front_keeps_prev(mem, l) ==
    IF l.first = None THEN Result(mem, l, None, "none")
    ELSE LET n == Unwrap(l.first)
             node == mem.heap[n]
             m1 == [mem EXCEPT !.heap[n].next = None]
         IN  IF node.prev # None
             THEN Result(mem, [l EXCEPT !.first = None], None, "assert_failed")
             ELSE IF node.next = None
             THEN Unwrapped([mem |-> Rc_drop(m1, l.last), list |-> fourth_List_new],
                            l.first, node.value)
             ELSE Unwrapped([mem |-> m1, list |-> [first |-> node.next, last |-> l.last]],
                            l.first, node.value)

fourth_pop_front(mem, l) ==
    IF l.first = None THEN Result(mem, l, None, "none")
    ELSE LET n == Unwrap(l.first)
             node == mem.heap[n]
             m1 == [mem EXCEPT !.heap[n].next = None]
         IN  IF node.prev # None
             THEN Result(mem, [l EXCEPT !.first = None], None, "assert_failed")
             ELSE IF node.next = None
             THEN Unwrapped([mem |-> Rc_drop(m1, l.last), list |-> fourth_List_new],
                            l.first, node.value)
             ELSE LET next == Unwrap(node.next)
                      old == m1.heap[next].prev
                      m2 == Rc_drop([m1 EXCEPT !.heap[next].prev = None], old)
                  IN  Unwrapped([mem |-> m2, list |-> [first |-> node.next, last |-> l.last]],
                                l.first, node.value)

fourth_pop_back(mem, l) ==
    IF l.last = None THEN Result(mem, l, None, "none")
    ELSE LET n == Unwrap(l.last)
             node == mem.heap[n]
             m1 == [mem EXCEPT !.heap[n].prev = None]
         IN  IF node.next # None
             THEN Result(mem, [l EXCEPT !.last = None], None, "assert_failed")
             ELSE IF node.prev = None
             THEN Unwrapped([mem |-> Rc_drop(m1, l.first), list |-> fourth_List_new],
                            l.last, node.value)
             ELSE LET prev == Unwrap(node.prev)
                      old == m1.heap[prev].next
                      m2 == Rc_drop([m1 EXCEPT !.heap[prev].next = None], old)
                  IN  Unwrapped([mem |-> m2, list |-> [first |-> l.first, last |-> node.prev]],
                                l.last, node.value)

InitFourth ==
    /\ heap = [n \in Nodes |-> FreeRc]
    /\ alloc = {}
    /\ list = fourth_List_new
    /\ mode = "list"
    /\ cursor = NoCursor
    /\ out = None
    /\ it = NoIter
    /\ yielded = <<>>
    /\ snap = <<>>
    /\ moves = <<>>
    /\ op = "new"
    /\ arg = None
    /\ ret = None
    /\ fault = "none"

FourthPushFront ==
    /\ Owned
    /\ alloc # Nodes
    /\ \E v \in Values : ListCall("push_front", Some(v), fourth_push_front(Mem, list, v))
    /\ UNCHANGED <<mode, cursor, out, it, yielded, snap>>

FourthPushBack ==
    /\ Owned
    /\ alloc # Nodes
    /\ \E v \in Values : ListCall("push_back", Some(v), fourth_push_back(Mem, list, v))
    /\ UNCHANGED <<mode, cursor, out, it, yielded, snap>>

FourthPopFront ==
    /\ Owned
    /\ ListCall("pop_front", None, fourth_pop_front(Mem, list))
    /\ UNCHANGED <<mode, cursor, out, it, yielded, snap>>

FourthPopBack ==
    /\ Owned
    /\ ListCall("pop_back", None, fourth_pop_back(Mem, list))
    /\ UNCHANGED <<mode, cursor, out, it, yielded, snap>>

NextFourth ==
    \/ FourthPushFront
    \/ FourthPushBack
    \/ FourthPopFront
    \/ FourthPopBack

SpecFourth == InitFourth /\ [][NextFourth]_vars

----------------------------------------------------------------------------
\* fifth::List (src/src/fifth.rs): the singly linked queue of raw pointers.
\* A heap cell holds a Node { value, next }; a null pointer is None.

null_mut == None

is_null(ptr) == ptr = null_mut

fifth_Node(value) == [value |-> value, next |-> null_mut]

\* What the model keeps in a freed cell (reads of it are faults, never values).
FreeNode == [value |-> 0, next |-> null_mut]

fifth_List_new == [first |-> null_mut, last |-> null_mut]

fifth_push(mem, l, value) ==
    LET n == Box_new(mem)
        new_node == Some(n)
        m1 == [heap |-> [mem.heap EXCEPT ![n] = fifth_Node(value)],
               alloc |-> mem.alloc \cup {n}]
        last == l.last
        l1 == [l EXCEPT !.last = new_node]
    IN  IF is_null(last)
        THEN Result(m1, [l1 EXCEPT !.first = new_node], None, "none")
        ELSE IF Dangling(mem, last)
        THEN Result(m1, l1, None, "use_after_free")
        ELSE Result([m1 EXCEPT !.heap[Unwrap(last)].next = new_node], l1, None, "none")

\* pop without the `if self.first.is_null() { self.last = null_mut() }`.
fifth_pop_keeps_last(mem, l) ==
    LET first == l.first
    IN  IF is_null(first) THEN Result(mem, l, None, "none")
        ELSE IF Dangling(mem, first) THEN Result(mem, l, None, "double_free")
        ELSE LET n == Unwrap(first)
                 node == mem.heap[n]
                 m1 == [heap |-> [mem.heap EXCEPT ![n] = FreeNode],
                        alloc |-> mem.alloc \ {n}]
             IN  Result(m1, [l EXCEPT !.first = node.next], Some(node.value), "none")

fifth_pop(mem, l) ==
    LET first == l.first
    IN  IF is_null(first) THEN Result(mem, l, None, "none")
        ELSE IF Dangling(mem, first) THEN Result(mem, l, None, "double_free")
        ELSE LET n == Unwrap(first)
                 node == mem.heap[n]
                 m1 == [heap |-> [mem.heap EXCEPT ![n] = FreeNode],
                        alloc |-> mem.alloc \ {n}]
                 l1 == [l EXCEPT !.first = node.next]
                 l2 == IF is_null(l1.first) THEN [l1 EXCEPT !.last = null_mut] ELSE l1
             IN  Result(m1, l2, Some(node.value), "none")

InitFifth ==
    /\ heap = [n \in Nodes |-> FreeNode]
    /\ alloc = {}
    /\ list = fifth_List_new
    /\ mode = "list"
    /\ cursor = NoCursor
    /\ out = None
    /\ it = NoIter
    /\ yielded = <<>>
    /\ snap = <<>>
    /\ moves = <<>>
    /\ op = "new"
    /\ arg = None
    /\ ret = None
    /\ fault = "none"

FifthPush ==
    /\ Owned
    /\ alloc # Nodes
    /\ \E v \in Values : ListCall("push", Some(v), fifth_push(Mem, list, v))
    /\ UNCHANGED <<mode, cursor, out, it, yielded, snap>>

FifthPop ==
    /\ Owned
    /\ ListCall("pop", None, fifth_pop(Mem, list))
    /\ UNCHANGED <<mode, cursor, out, it, yielded, snap>>

NextFifth ==
    \/ FifthPush
    \/ FifthPop

SpecFifth == InitFifth /\ [][NextFifth]_vars

----------------------------------------------------------------------------
\* Traversals used to state the properties

\* The nodes met from `link` following `field` until None (at most fuel of them).
RECURSIVE Walk(_, _, _, _)
Walk(h, link, field, fuel) ==
    IF link = None \/ fuel = 0 THEN <<>>
    ELSE <<Unwrap(link)>> \o Walk(h, h[Unwrap(link)][field], field, fuel - 1)

Forward(h, l) == Walk(h, l.first, "next", MaxNodes + 1)
Backward(h, l) == Walk(h, l.last, "prev", MaxNodes + 1)

ValuesOf(h, nodes) == [i \in 1..Len(nodes) |-> h[nodes[i]].value]
Reverse(s) == [i \in 1..Len(s) |-> s[Len(s) + 1 - i]]
Range(s) == {s[i] : i \in 1..Len(s)}

\* The list's element sequence, front to back.
Elems == ValuesOf(heap, Forward(heap, list))

\* The cursor methods that are unimplemented!() and panic when called.
Stubs == {"split_after", "splice_before", "splice_after"}

\* Only push_* and pop_* have touched the list so far.
PushPopOnly ==
    /\ fault = "none"
    /\ out = None
    /\ mode \in {"list", "iter", "iter_mut", "into_iter", "cursor"}

\* The yields of the live iterator that came from one end, in call order.
YieldsFrom(end) == SelectSeq(yielded, LAMBDA y : y.end = end)

\* The live iterator's yields are right so far: the j-th item taken from the
\* front is the j-th element the list had, the k-th taken from the back is
\* the k-th from its end, and no node was handed out twice.
YieldsInOrder ==
    LET n == Len(snap)
        F == YieldsFrom("front")
        B == YieldsFrom("back")
    IN  /\ Len(yielded) <= n
        /\ \A j \in 1..Len(F) : j <= n /\ F[j].node = snap[j].node
                                       /\ F[j].value = snap[j].value
        /\ \A k \in 1..Len(B) : k <= n /\ B[k].node = snap[n + 1 - k].node
                                       /\ B[k].value = snap[n + 1 - k].value
        /\ \A i, j \in 1..Len(yielded) : i # j => yielded[i].node # yielded[j].node

----------------------------------------------------------------------------
\* C1: the list refines a sequence: push_front(x) prepends x, push_back(x)
\* appends x, pop_front removes and returns the first element, pop_back the
\* last one (None on an empty list), front and back return the first and
\* last element and remove nothing.
C1_Step ==
    /\ op' = "push_front" => Elems' = <<Unwrap(arg')>> \o Elems
    /\ op' = "push_back" => Elems' = Append(Elems, Unwrap(arg'))
    /\ op' = "pop_front" =>
          IF Elems = <<>> THEN ret' = None /\ Elems' = <<>>
          ELSE ret' = Some(Head(Elems)) /\ Elems' = Tail(Elems)
    /\ op' = "pop_back" =>
          IF Elems = <<>> THEN ret' = None /\ Elems' = <<>>
          ELSE /\ ret' = Some(Elems[Len(Elems)])
               /\ Elems' = SubSeq(Elems, 1, Len(Elems) - 1)
    /\ op' = "front" =>
          /\ ret' = (IF Elems = <<>> THEN None ELSE Some(Head(Elems)))
          /\ Elems' = Elems
    /\ op' = "back" =>
          /\ ret' = (IF Elems = <<>> THEN None ELSE Some(Elems[Len(Elems)]))
          /\ Elems' = Elems

C1_SequenceRefinement == [][C1_Step]_vars

\* pop_back has just returned the last of several elements.
C1_Witness == op = "pop_back" /\ ret # None /\ list.len >= 2

\* C2: after any sequence of pushes and pops, len == 0, first is None and
\* last is None are all true or all false.
C2_EmptyIffNoEnds ==
    PushPopOnly =>
        /\ (list.len = 0) <=> (list.first = None)
        /\ (list.first = None) <=> (list.last = None)

\* A pop has just removed the only element.
C2_Witness == op \in {"pop_front", "pop_back"} /\ ret # None /\ list.len = 0

\* C3: after any sequence of pushes and pops that leaves the list non-empty,
\* first.prev and last.next are None, and next and prev mirror each other on
\* every node of the list.
C3_LinksConsistent ==
    (PushPopOnly /\ list.len # 0 /\ list.first # None /\ list.last # None) =>
        /\ heap[Unwrap(list.first)].prev = None
        /\ heap[Unwrap(list.last)].next = None
        /\ \A n \in Range(Forward(heap, list)) \cup Range(Backward(heap, list)) :
              /\ heap[n].next # None => heap[Unwrap(heap[n].next)].prev = Some(n)
              /\ heap[n].prev # None => heap[Unwrap(heap[n].prev)].next = Some(n)

\* A list with an interior node, just after a push.
C3_Witness == op \in {"push_front", "push_back"} /\ list.len >= 3

\* C4: after any sequence of pushes and pops, len is the number of nodes met
\* walking next from first, and the number met walking prev from last.
C4_LenCountsNodes ==
    PushPopOnly =>
        /\ list.len = Len(Forward(heap, list))
        /\ list.len = Len(Backward(heap, list))

\* A pop has just shortened a list that stays non-empty.
C4_Witness == op \in {"pop_front", "pop_back"} /\ ret # None /\ list.len >= 1

\* C7: a list reached by pushes and pops owns exactly its live nodes (one
\* allocated per push, one freed per successful pop), and dropping it, empty
\* or not, ends with every node freed once: none is left, none freed twice.
C7_Owns ==
    (out = None /\ op \notin Stubs) =>
        /\ fault = "none"
        /\ mode # "dropped" => alloc = Range(Forward(heap, list))
        /\ mode = "dropped" => alloc = {}

C7_Step ==
    /\ op' \in {"push_front", "push_back"} =>
          alloc \subseteq alloc' /\ Cardinality(alloc') = Cardinality(alloc) + 1
    /\ op' \in {"pop_front", "pop_back"} =>
          IF ret' = None THEN alloc' = alloc
          ELSE alloc' \subseteq alloc /\ Cardinality(alloc') = Cardinality(alloc) - 1

C7_DropFreesAllOnce == []C7_Owns /\ [][C7_Step]_vars

\* An IntoIter that gave one of three elements was dropped: its list still
\* held two nodes, and all are freed.
C7_Witness ==
    mode = "dropped" /\ op = "drop" /\ Len(snap) = 3 /\ Len(yielded) = 1 /\ alloc = {}

\* C8: the owning iterator yields every element exactly once under any mix
\* of next and next_back (next gives the current first, next_back the
\* current last), and returns None from both ends once all n are out.
C8_IntoIterOnce ==
    (mode = "into_iter" /\ out = None) =>
        /\ fault = "none"
        /\ YieldsInOrder
        /\ list.len = Len(snap) - Len(yielded)
        /\ (op \in {"IntoIter::next", "IntoIter::next_back"} /\ ret = None)
              => Len(yielded) = Len(snap)
        /\ (op \in {"IntoIter::next", "IntoIter::next_back"} /\ ret # None)
              => ret = Some(yielded[Len(yielded)].value)

\* All three elements are out, taken from both ends, and the last call got None.
C8_Witness ==
    /\ mode = "into_iter" /\ op = "IntoIter::next" /\ ret = None
    /\ Len(snap) = 3 /\ Len(YieldsFrom("front")) = 1 /\ Len(YieldsFrom("back")) = 2

\* C5: split_before at At(node) with index i on a list whose iter() yields
\* s (n elements) returns a list of len i that yields s[0..i), leaves the
\* borrowed list with len n - i yielding s[i..n), and leaves the cursor on
\* the same node with index Some(0).
C5_Step ==
    (op' = "split_before" /\ cursor.current # None /\ cursor.index # None) =>
        LET i == Unwrap(cursor.index)
            s == IterElems(heap, alloc, list)
            n == Len(s)
        IN  /\ fault' = "none"
            /\ i < n
            /\ out' # None
            /\ Unwrap(out').len = i
            /\ IterElems(heap', alloc', Unwrap(out')) = SubSeq(s, 1, i)
            /\ list'.len = n - i
            /\ IterElems(heap', alloc', list') = SubSeq(s, i + 1, n)
            /\ cursor'.current = cursor.current
            /\ cursor'.index = Some(0)

C5_SplitBeforeAtNode == [][C5_Step]_vars

\* A split in the middle: a prefix was returned and two elements were kept.
C5_Witness ==
    /\ op = "split_before" /\ cursor.current # None
    /\ out # None /\ Unwrap(out).len >= 1 /\ list.len >= 2

\* The nodes one can get to from l's first and last through next and prev.
RECURSIVE Closure(_, _)
Closure(h, S) ==
    LET T == S \cup {Unwrap(h[n].next) : n \in {m \in S : h[m].next # None}}
               \cup {Unwrap(h[n].prev) : n \in {m \in S : h[m].prev # None}}
    IN  IF T = S THEN S ELSE Closure(h, T)

Reachable(h, l) == Closure(h, Range(l.first) \cup Range(l.last))

EndsAgree(l) ==
    /\ (l.len = 0) <=> (l.first = None)
    /\ (l.first = None) <=> (l.last = None)

\* C6: after split_before at At(node), index 0 included, the returned list
\* and the borrowed list are two independent well-formed lists: in each,
\* len == 0 iff first is None iff last is None; the returned list's
\* last.next is None; the borrowed list's first.prev is None; and no node is
\* reachable from both.
C6_SplitListsIndependent ==
    (op = "split_before" /\ cursor.current # None /\ out # None) =>
        LET o == Unwrap(out)
        IN  /\ EndsAgree(o)
            /\ EndsAgree(list)
            /\ o.last # None => heap[Unwrap(o.last)].next = None
            /\ list.first # None => heap[Unwrap(list.first)].prev = None
            /\ Reachable(heap, o) \cap Reachable(heap, list) = {}

\* C9: iter() and iter_mut() over a list with sequence s of length n: under
\* any mix of calls the j-th next() yields s[j-1], the k-th next_back()
\* yields s[n-k], no node is yielded twice (so none from both ends), the
\* first n calls all yield, and every later call returns None.
C9_BorrowingIterOnce ==
    mode \in {"iter", "iter_mut"} =>
        /\ fault = "none"
        /\ snap = Snapshot(heap, list.first, MaxNodes + 1)
        /\ YieldsInOrder
        /\ (op \in {"next", "next_back"} /\ ret = None) => Len(yielded) = Len(snap)
        /\ (op \in {"next", "next_back"} /\ ret # None)
              => ret = Some(yielded[Len(yielded)].value)

\* Both ends met: of three elements one came from the front and two from the
\* back, and the next call got None.
C9_Witness ==
    /\ mode \in {"iter", "iter_mut"} /\ op = "next" /\ ret = None
    /\ Len(snap) = 3 /\ Len(YieldsFrom("front")) = 1 /\ Len(YieldsFrom("back")) = 2

\* C10: for iter() and iter_mut() alike, size_hint() returns (k, Some(k)),
\* k being the remaining counter: the length at creation minus the number of
\* items yielded so far from both ends.
C10_SizeHintIsCounter ==
    (mode \in {"iter", "iter_mut"} /\ op = "size_hint") =>
        /\ it.len = Len(snap) - Len(yielded)
        /\ ret = <<it.len, Some(it.len)>>

----------------------------------------------------------------------------
\* The cursor

Ghost == [current |-> None, index |-> None]

\* The cursor has only been moved since cursor_mut made it: the borrowed list
\* is as pushes and pops left it.
OnlyMoved == mode = "cursor" /\ out = None /\ op \notin Stubs

\* C11: for a cursor made by cursor_mut and moved by any sequence of
\* move_next and move_prev, current is present iff index is, and index is
\* then the zero-based position of the current node (0 <= index < len).
C11_IndexIsPosition ==
    OnlyMoved =>
        /\ fault = "none"
        /\ (cursor.current = None) <=> (cursor.index = None)
        /\ cursor.current # None =>
              /\ 0 <= Unwrap(cursor.index) /\ Unwrap(cursor.index) < list.len
              /\ Unwrap(cursor.index) < Len(Forward(heap, list))
              /\ Forward(heap, list)[Unwrap(cursor.index) + 1] = Unwrap(cursor.current)

\* The cursor came in backwards from the ghost and stands on the last of
\* several elements.
C11_Witness ==
    /\ OnlyMoved /\ op = "move_prev" /\ moves = <<"move_prev">>
    /\ list.len >= 2 /\ cursor.index = Some(list.len - 1)

\* C12: move_next takes Ghost to At(first, 0) on a non-empty list and leaves
\* it on an empty one, and takes At(n, i) to At(n.next, i+1), or to Ghost
\* when n has no next; move_prev mirrors it with last, len - 1, prev, i - 1.
C12_Step ==
    OnlyMoved =>
        LET nodes == Forward(heap, list)
            here == heap[Unwrap(cursor.current)]
            i == Unwrap(cursor.index)
        IN  /\ op' = "move_next" =>
                  /\ fault' = "none"
                  /\ cursor' =
                        IF cursor.current = None
                        THEN IF nodes = <<>> THEN Ghost
                             ELSE [current |-> Some(nodes[1]), index |-> Some(0)]
                        ELSE IF here.next = None THEN Ghost
                        ELSE [current |-> here.next, index |-> Some(i + 1)]
            /\ op' = "move_prev" =>
                  /\ fault' = "none"
                  /\ cursor' =
                        IF cursor.current = None
                        THEN IF nodes = <<>> THEN Ghost
                             ELSE [current |-> Some(nodes[Len(nodes)]),
                                   index |-> Some(Len(nodes) - 1)]
                        ELSE IF here.prev = None THEN Ghost
                        ELSE [current |-> here.prev, index |-> Some(i - 1)]

C12_CursorStateMachine == [][C12_Step]_vars

\* A step forward between two nodes: from index 0 to index 1.
C12_Witness ==
    /\ OnlyMoved /\ op = "move_next" /\ moves = <<"move_next", "move_next">>
    /\ cursor.index = Some(1)

\* The cursor was at the ghost, and has since made the moves `a` then `b`.
GhostThen(a, b) == moves = <<a, b>>

C14_PeekFollowsNames ==
    (OnlyMoved /\ op \in {"peek_next", "peek_prev"}) =>
        LET s == Elems
            n == Len(s)
            i == Unwrap(cursor.index)
            after == IF cursor.current = None
                     THEN IF n = 0 THEN None ELSE Some(s[1])
                     ELSE IF i + 1 < n THEN Some(s[i + 2]) ELSE None
            before == IF cursor.current = None
                      THEN IF n = 0 THEN None ELSE Some(s[n])
                      ELSE IF i > 0 THEN Some(s[i]) ELSE None
        IN  /\ fault = "none"
            /\ op = "peek_next" => ret = after
            /\ op = "peek_prev" => ret = before

\* A list whose ends, links and len agree.
WellFormed(h, l) ==
    /\ EndsAgree(l)
    /\ l.len = Len(Forward(h, l))
    /\ Backward(h, l) = Reverse(Forward(h, l))
    /\ l.first # None => h[Unwrap(l.first)].prev = None
    /\ l.last # None => h[Unwrap(l.last)].next = None

\* C15: split_before at the ghost of a list with sequence s returns a
\* well-formed list holding all of s, leaves the borrowed list empty (len 0,
\* no first, no last, nothing for an owning iterator to yield) and leaves
\* the cursor at the ghost.
C15_Step ==
    (OnlyMoved /\ op' = "split_before" /\ cursor = Ghost) =>
        /\ fault' = "none"
        /\ out' # None
        /\ WellFormed(heap', Unwrap(out'))
        /\ Unwrap(out').len = Len(Elems)
        /\ Forward(heap', Unwrap(out')) = Forward(heap, list)
        /\ ValuesOf(heap', Forward(heap', Unwrap(out'))) = Elems
        /\ list' = [first |-> None, last |-> None, len |-> 0]
        /\ IntoIter_next([heap |-> heap', alloc |-> alloc'], list').ret = None
        /\ IntoIter_next_back([heap |-> heap', alloc |-> alloc'], list').ret = None
        /\ alloc' = alloc
        /\ cursor' = Ghost

C15_SplitBeforeAtGhost == [][C15_Step]_vars

\* The ghost split of a list of several elements: all were returned.
C15_Witness ==
    /\ mode = "cursor" /\ op = "split_before" /\ cursor = Ghost
    /\ out # None /\ Unwrap(out).len >= 2 /\ list.len = 0

----------------------------------------------------------------------------
\* Splices and split_after

\* A cursor on a list that pushes and pops built, before a call.
CleanCursor == mode = "cursor" /\ out = None /\ fault = "none"

\* The sequence the spliced-in list held.
Other == Unwrap(arg).elems

\* C16: at At(node) with index i on a list with sequence s, splice_before(o)
\* makes the sequence s[0..i) ++ o ++ s[i..] and the index i + len(o), and
\* splice_after(o) makes it s[0..i] ++ o ++ s[i+1..] and leaves the index;
\* current stays on node in both.
C16_Step ==
    (CleanCursor /\ cursor.current # None /\ cursor.index # None) =>
        LET s == IterElems(heap, alloc, list)
            n == Len(s)
            i == Unwrap(cursor.index)
        IN  /\ op' = "splice_before" =>
                  /\ fault' = "none"
                  /\ IterElems(heap', alloc', list')
                        = SubSeq(s, 1, i) \o Other' \o SubSeq(s, i + 1, n)
                  /\ cursor' = [current |-> cursor.current, index |-> Some(i + Len(Other'))]
            /\ op' = "splice_after" =>
                  /\ fault' = "none"
                  /\ IterElems(heap', alloc', list')
                        = SubSeq(s, 1, i + 1) \o Other' \o SubSeq(s, i + 2, n)
                  /\ cursor' = cursor

C16_SpliceAtNode == [][C16_Step]_vars

\* C17: at the ghost of a list with sequence s, splice_before(o) makes the
\* sequence s ++ o and splice_after(o) makes it o ++ s; the cursor stays at
\* the ghost and the list's links stay consistent in both directions.
C17_Step ==
    (CleanCursor /\ cursor = Ghost /\ op' \in {"splice_before", "splice_after"}) =>
        LET s == IterElems(heap, alloc, list)
        IN  /\ fault' = "none"
            /\ op' = "splice_before" => IterElems(heap', alloc', list') = s \o Other'
            /\ op' = "splice_after" => IterElems(heap', alloc', list') = Other' \o s
            /\ cursor' = Ghost
            /\ WellFormed(heap', list')

C17_SpliceAtGhost == [][C17_Step]_vars

\* C18: at any cursor position splice_before(o) and splice_after(o) add
\* exactly len(o) to the borrowed list's len and move every node of o into
\* it; with o empty they change neither the list nor the cursor.
C18_Step ==
    (CleanCursor /\ op' \in {"splice_before", "splice_after"}) =>
        /\ fault' = "none"
        /\ list'.len = list.len + Len(Other')
        /\ Len(Forward(heap', list')) = Len(Forward(heap, list)) + Len(Other')
        /\ alloc' = Range(Forward(heap', list'))
        /\ Other' = <<>> => (list' = list /\ cursor' = cursor /\ heap' = heap)

C18_SpliceFrame == [][C18_Step]_vars

\* C19: split_before at At(node), then splice_before of the returned prefix
\* at the same cursor, gives back the original element sequence (by C5 the
\* prefix followed by what the borrowed list kept), the cursor on node with
\* its original index (the prefix's length).
C19_Step ==
    (/\ mode = "cursor" /\ fault = "none"
     /\ op = "split_before" /\ cursor.current # None /\ out # None
     /\ op' = "splice_before" /\ Unwrap(arg').src = "out") =>
        LET prefix == IterElems(heap, alloc, Unwrap(out))
            rest == IterElems(heap, alloc, list)
        IN  /\ fault' = "none"
            /\ IterElems(heap', alloc', list') = prefix \o rest
            /\ cursor' = [current |-> cursor.current, index |-> Some(Len(prefix))]

C19_SplitSpliceInverse == [][C19_Step]_vars

\* C20: split_after at At(node) with index i on a list with sequence s of
\* length n returns s[i+1..n) and leaves s[0..i] with the cursor unmoved; at
\* the ghost it returns all of s and leaves the list empty.
C20_Step ==
    (CleanCursor /\ op' = "split_after") =>
        LET s == IterElems(heap, alloc, list)
            n == Len(s)
            i == Unwrap(cursor.index)
        IN  /\ fault' = "none"
            /\ out' # None
            /\ cursor' = cursor
            /\ IF cursor.current # None
               THEN /\ IterElems(heap', alloc', Unwrap(out')) = SubSeq(s, i + 2, n)
                    /\ IterElems(heap', alloc', list') = SubSeq(s, 1, i + 1)
               ELSE /\ IterElems(heap', alloc', Unwrap(out')) = s
                    /\ IterElems(heap', alloc', list') = <<>>

C20_SplitAfter == [][C20_Step]_vars

----------------------------------------------------------------------------
\* Empty lists, comparisons, hashing and formatting

\* C21: on an empty list, whatever pushes and pops emptied it, pop_front and
\* pop_back return None without a panic and leave the list as it is: len 0,
\* first and last None, no node freed; and so again at the next call.
C21_Step ==
    (Owned /\ out = None /\ list.len = 0 /\ op' \in {"pop_front", "pop_back"}) =>
        /\ ret' = None
        /\ fault' = "none"
        /\ list' = LinkedList_new
        /\ list' = list
        /\ heap' = heap
        /\ alloc' = alloc

C21_PopOnEmpty == [][C21_Step]_vars

\* A pop found the list empty: it returned None and the list is as new.
C21_Witness ==
    /\ mode = "list" /\ out = None /\ fault = "none"
    /\ op \in {"pop_front", "pop_back"} /\ ret = None
    /\ list = LinkedList_new /\ alloc = {}

\* The elements of l, front to back, as read off the links.
ElemsOf(l) == ValuesOf(heap, Walk(heap, l.first, "next", CmpNodes + 1))

\* The receiver's and the argument's elements in the last call on the two lists.
Left == ElemsOf(Lhs(Unwrap(arg)))
Right == ElemsOf(Rhs(Unwrap(arg)))

\* C22: two lists are == iff they have the same len and their forward
\* sequences are equal element by element, however each was built and
\* whatever nodes hold the elements; a proper prefix is never equal.
C22_EqualityIsPairwise ==
    (op = "eq") =>
        /\ fault = "none"
        /\ ret = (/\ Lhs(Unwrap(arg)).len = Rhs(Unwrap(arg)).len
                  /\ Len(Left) = Len(Right)
                  /\ \A i \in 1..Len(Left) : f64_eq(Left[i], Right[i]))

\* Equal lists of two elements: one built back to front by push_front (its
\* first node is the younger one), the other collected in order.
C22_Witness ==
    /\ op = "eq" /\ ret = TRUE
    /\ list.len = 2 /\ Unwrap(list.first) > Unwrap(list.last)
    /\ Unwrap(Unwrap(out).first) < Unwrap(Unwrap(out).last)

\* The first position where a and b both have an element and the two are
\* not equal; 0 if there is none.
FirstDiff(a, b) ==
    LET D == {i \in 1..Len(a) : i <= Len(b) /\ f64_partial_cmp(a[i], b[i]) # Some("Equal")}
    IN  IF D = {} THEN 0 ELSE CHOOSE i \in D : \A j \in D : i <= j

\* The lexicographic order of a and b: None when they are unordered.
Lexicographic(a, b) ==
    LET d == FirstDiff(a, b)
    IN  IF d # 0 THEN f64_partial_cmp(a[d], b[d])
        ELSE IF Len(a) < Len(b) THEN Some("Less")
        ELSE IF Len(a) = Len(b) THEN Some("Equal")
        ELSE Some("Greater")

\* C23: lists compare lexicographically by their forward sequences under
\* the elements' partial order: the first position with unequal elements
\* decides, whatever follows it; if that pair is unordered so are the lists,
\* and <, >, <=, >= are all false, in both argument orders; a proper prefix
\* is less than the longer list.
C23_LexicographicOrder ==
    LET c == Lexicographic(Left, Right)
    IN  /\ op = "partial_cmp" => ret = c
        /\ op = "lt" => ret = (c = Some("Less"))
        /\ op = "le" => ret = (c = Some("Less") \/ c = Some("Equal"))
        /\ op = "gt" => ret = (c = Some("Greater"))
        /\ op = "ge" => ret = (c = Some("Greater") \/ c = Some("Equal"))
        /\ (op \in {"lt", "le", "gt", "ge"} /\ c = None) =>
              (ret = FALSE /\ Lexicographic(Right, Left) = None)
        /\ op \in {"partial_cmp", "lt", "le", "gt", "ge"} => fault = "none"

\* [1, NaN] >= [1, x] was asked and is false: the second pair decided, and it
\* is unordered.
C23_Witness ==
    /\ op = "ge" /\ ret = FALSE
    /\ Len(Left) = 2 /\ Len(Right) = 2
    /\ Left[1] = 1 /\ Right[1] = 1 /\ Left[2] = NaN /\ Right[2] # NaN

\* C24: hashing a list completes and feeds the hasher the elements in
\* forward order, so lists that are == hash alike and a list works as a
\* HashMap key (insert, then get or remove with an equal list).
C24_HashFollowsEq ==
    (op = "hash") =>
        /\ fault = "none"
        /\ ret # None
        /\ Unwrap(ret) = ElemsOf(list)

\* The elements' own {:?}, and a list's: the pieces of the string, in order.
Digits == <<"0", "1", "2", "3", "4", "5", "6", "7", "8", "9">>
ElemDebug(v) == IF v = NaN THEN "NaN" ELSE Digits[v + 1]

RECURSIVE Joined(_)
Joined(s) ==
    IF s = <<>> THEN <<>>
    ELSE IF Len(s) = 1 THEN <<ElemDebug(s[1])>>
    ELSE <<ElemDebug(s[1]), ", ">> \o Joined(Tail(s))

\* C25: {:?} of a list with forward sequence e1..en completes and gives "["
\* then the elements' own renderings in forward order separated by ", "
\* then "]"; "[]" for the empty list.
C25_DebugRendering ==
    (op = "fmt") =>
        /\ fault = "none"
        /\ ret # None
        /\ Unwrap(ret) = <<"[">> \o Joined(ElemsOf(list)) \o <<"]">>

----------------------------------------------------------------------------
\* After split_before

\* A cursor whose split_before at a node returned a list the caller still
\* holds: the borrowed list kept the cursor's node, so it is not empty.
SplitAtNode == mode = "cursor" /\ fault = "none" /\ out # None /\ list.len >= 1

\* C26: after split_before at At(node), dropping the returned list and
\* dropping the borrowed list, in either order, each end without a panic and
\* free between them every node of the original list once: the first drop
\* frees its own list's nodes only, the second leaves nothing allocated, and
\* no pop of either drop, or of the returned list's into_iter, takes len
\* below zero or touches a freed node.
C26_Step ==
    /\ (SplitAtNode /\ op' = "drop_out") =>
          /\ fault' = "none"
          /\ alloc' = Range(Forward(heap, list))
    /\ (SplitAtNode /\ op' = "drop") =>
          /\ fault' = "none"
          /\ alloc' = alloc \ Range(Forward(heap, list))
          /\ Cardinality(alloc') = Unwrap(out).len
    /\ (mode = "dropped" /\ out # None /\ op' = "drop_out") =>
          /\ fault' = "none"
          /\ alloc' = {}
    /\ (mode = "dropped" /\ out # None /\ op' = "out_next") =>
          /\ fault' = "none"
          /\ ret' = None => alloc' = {}

C26_DropAfterSplit == [][C26_Step]_vars

\* C27: after split_before at At(node) with index i >= 1 the cursor is at
\* index 0 of what the borrowed list kept: a move_prev from there takes it to
\* the ghost, never onto a node of the returned list and never through
\* index - 1 at index 0, and the peek at the preceding element gives None.
C27_Step ==
    (/\ SplitAtNode /\ Unwrap(out).len >= 1
     /\ cursor.current = list.first) =>
        /\ cursor.index = Some(0)
        /\ op' = "move_prev" =>
              /\ fault' = "none"
              /\ cursor' = Ghost
        /\ op' = "peek_prev" =>
              /\ fault' = "none"
              /\ ret' = None

C27_AnchoredAtZero == [][C27_Step]_vars

\* The cursor left the ghost and has since made k calls of `name`, and no
\* other move.
Run(name, k) == Len(moves) = k /\ \A i \in 1..k : moves[i] = name

\* C28: the cursor goes round through the ghost.  On a list of n elements,
\* after k move_next calls from the ghost (1 <= k <= n) it is on the k-th
\* element with index k - 1, and the (n+1)-th call puts it back at the ghost,
\* from where the count starts again; move_prev goes the same way through
\* indices n - 1 down to 0 and then the ghost.
C28_CircularTraversal ==
    OnlyMoved =>
        LET n == list.len
            nodes == Forward(heap, list)
        IN  \A k \in 1..(MaxNodes + 2) :
                /\ Run("move_next", k) =>
                      /\ fault = "none"
                      /\ k <= n + 1
                      /\ k <= n => cursor = [current |-> Some(nodes[k]), index |-> Some(k - 1)]
                      /\ k = n + 1 => cursor = Ghost
                /\ Run("move_prev", k) =>
                      /\ fault = "none"
                      /\ k <= n + 1
                      /\ k <= n => cursor = [current |-> Some(nodes[n + 1 - k]),
                                             index |-> Some(n - k)]
                      /\ k = n + 1 => cursor = Ghost

\* Once round a list of three: the fourth move_next in a row is back at the
\* ghost.
C28_Witness ==
    /\ OnlyMoved /\ list.len = 3 /\ op = "move_next"
    /\ Run("move_next", 4) /\ cursor = Ghost

\* C29: the cursor's non-structural calls leave the rest alone: move_next
\* and move_prev change only the cursor's current and index, never the
\* borrowed list's first, last, len, or any node's links or value; index,
\* current, peek_next and peek_prev change neither the list nor the cursor.
C29_Step ==
    /\ op' \in {"move_next", "move_prev", "index", "current", "peek_next", "peek_prev"} =>
          /\ list' = list
          /\ heap' = heap
          /\ alloc' = alloc
          /\ out' = out
    /\ op' \in {"index", "current", "peek_next", "peek_prev"} => cursor' = cursor
    /\ op' = "index" => ret' = cursor.index
    /\ (op' = "current" /\ fault' = "none") =>
          ret' = IF cursor.current = None THEN None
                 ELSE Some(heap[Unwrap(cursor.current)].value)

C29_CursorFrame == [][C29_Step]_vars

\* current() was read on the second of three elements, after two moves.
C29_Witness ==
    /\ mode = "cursor" /\ fault = "none" /\ out = None
    /\ op = "current" /\ ret # None
    /\ cursor.index = Some(1) /\ list.len = 3

----------------------------------------------------------------------------
\* fourth::List

\* The Rcs that point at node n: the list's ends and the live nodes' links.
Refs(n) ==
    Cardinality({e \in {"first", "last"} : list[e] = Some(n)})
    + Cardinality({m \in alloc : heap[m].next = Some(n)})
    + Cardinality({m \in alloc : heap[m].prev = Some(n)})

C30_Counts ==
    /\ fault = "none"
    /\ op \in {"push_front", "push_back"} =>
          (list.first # None /\ Rc_strong_count(Mem, list.first) = 2)
    /\ \A n \in alloc : heap[n].strong = Refs(n)

C30_Step ==
    /\ (op' = "pop_front" /\ list.first # None) =>
          /\ heap[Unwrap(list.first)].prev = None
          /\ ret' = Some(heap[Unwrap(list.first)].value)
          /\ alloc' = alloc \ {Unwrap(list.first)}
    /\ (op' = "pop_back" /\ list.last # None) =>
          /\ heap[Unwrap(list.last)].next = None
          /\ ret' = Some(heap[Unwrap(list.last)].value)
          /\ alloc' = alloc \ {Unwrap(list.last)}

\* C30: in fourth::List no sequence of push_front, push_back, pop_front and
\* pop_back fails a runtime check: after every push the first node has two
\* strong references (every count is the number of Rcs that exist), the
\* node pop_front takes has no prev and the one pop_back takes no next, and
\* the detached node has one strong reference left, so its value is
\* unwrapped and returned and the node freed.
C30_NoCheckFails == []C30_Counts /\ [][C30_Step]_vars

\* pop_back has just taken the last of three nodes, after pushes at both ends.
C30_Witness ==
    /\ op = "pop_back" /\ ret # None /\ fault = "none"
    /\ Cardinality(alloc) = 2
    /\ list.first # list.last
    /\ \A n \in alloc : heap[n].strong = 2

----------------------------------------------------------------------------
\* fifth::List

\* The queue a fifth::List holds: the values met from first along next.
Queue(h, l) == ValuesOf(h, Forward(h, l))

\* No call faulted, first is null exactly when last is, the live nodes are
\* the ones reached from first, and last is the node that ends that chain.
C31_Ends ==
    /\ fault = "none"
    /\ is_null(list.first) <=> is_null(list.last)
    /\ alloc = Range(Forward(heap, list))
    /\ Len(Forward(heap, list)) = Cardinality(alloc)
    /\ ~is_null(list.last) =>
          /\ Unwrap(list.last) \in alloc
          /\ is_null(heap[Unwrap(list.last)].next)
          /\ Forward(heap, list)[Cardinality(alloc)] = Unwrap(list.last)

C31_Step ==
    /\ op' = "push" => Queue(heap', list') = Append(Queue(heap, list), Unwrap(arg'))
    /\ (op' = "pop" /\ Queue(heap, list) = <<>>) =>
          /\ ret' = None
          /\ Queue(heap', list') = <<>>
    /\ (op' = "pop" /\ Queue(heap, list) # <<>>) =>
          /\ ret' = Some(Head(Queue(heap, list)))
          /\ Queue(heap', list') = Tail(Queue(heap, list))

\* C31: fifth::List is a FIFO queue under every sequence of push and pop:
\* push puts its value behind the ones waiting, pop returns the oldest value
\* not yet popped, or None when the queue is empty; after every call first
\* is null iff last is null, so a push that follows exhaustion never writes
\* through a pointer to a freed node and its value is the next one popped.
C31_FifoQueue == []C31_Ends /\ [][C31_Step]_vars

\* pop has just taken the only node left, returning its value: the queue is
\* exhausted, no node is live and both ends are null for the next push.
C31_Witness ==
    /\ op = "pop" /\ ret # None /\ fault = "none"
    /\ alloc = {}
    /\ is_null(list.first) /\ is_null(list.last)
    /\ Queue(heap, list) = <<>>

====
